---------------------------- MODULE Spec2Model ----------------------------
(***************************************************************************)
(* A model of cSatipDevice (device.c / device.h of vdr-plugin-satip): the  *)
(* TS delivery path (WriteData, OpenDvr, CloseDvr, GetData, SkipData,      *)
(* GetTSPacket), the PID and section filter management (SetPid,            *)
(* OpenFilter, CloseFilter) and the channel switch (SetChannelDevice,      *)
(* SetChannelTuned) under the static SetChannelMtx.                        *)
(*                                                                         *)
(* The three parts share no field of the device, so each has its own       *)
(* specification over its own variables: SpecBuf, SpecPid and SpecTune.    *)
(***************************************************************************)
EXTENDS Integers, Sequences, FiniteSets, TLC

(***************************************************************************)
(* Bounds of the model.                                                    *)
(***************************************************************************)
\* SATIP_BUFFER_SIZE is BufPackets TS packets (plus the 12 bytes the real
\* 2 MiB leave over 188): the real value is 11155 packets.
BufPackets == 3
\* Number of WriteData calls of a run.
MaxWrites == 3
\* Number of section filter slots of the filter handler.
MaxFilters == 2
\* Largest reference count of a cPidHandle the host passes in.
MaxUsed == 1
\* Number of devices of the pool.
NumDevices == 2
\* Number of threads of the host that call SetChannelDevice.
NumCallers == 2
\* Largest timeout of a HasLock query, in polling intervals.
MaxPolls == 2

(***************************************************************************)
(* Program constants.                                                      *)
(***************************************************************************)
TS_SIZE == 188
TS_SYNC_BYTE == 71
MAXPID == 8191

VARIABLES
  \* ---- delivery path ----
  dvrIsOpen,       \* bool dvrIsOpen
  bytesDelivered,  \* int bytesDelivered
  checkTsBufferM,  \* bool checkTsBufferM
  tsBuffer,        \* cRingBufferLinear *tsBuffer: [head, tail, gotten, data]
  given,           \* history: how many leading bytes of tsBuffer.data a
                   \* consumer has been handed and that are not yet deleted
  ev,              \* history: the last delivery operation and what it did
  writes,          \* history: the number of WriteData calls so far
  tunerIsOpen,     \* tuner: Open() was called and Close() was not since
  \* ---- PIDs and section filters ----
  filters,         \* SectionFilterHandler: the PID of each filter slot, -1 when free
  tunerPids,       \* tuner: the PIDs enabled at the session
  pev,             \* history: the last PID operation and what it did
  \* ---- channel switch ----
  mtx,             \* SetChannelMtx: the device whose caller holds it, 0 when free
  pc,              \* where the SetChannelDevice call of each device stands
  arg,             \* the channel argument of the call in progress
  currentChannel,  \* cChannel currentChannel of each device
  serverString,    \* std::string serverString of each device
  sess,            \* tuner of each device: "idle", "tuning", "tuned", or "gone"
                   \* once the destructor has deleted it
  woke,            \* what ended the TimedWait of the call: "signal" or "timeout"
  ret,             \* the value the call returns
  old,             \* history: currentChannel and serverString when the call
                   \* began, kept until the tuner has accepted its command
  made,            \* history: the calls to the discovery and the tuner of the call
  lockq,           \* the HasLock query in progress: its device, the timeout
                   \* left and its result; history: the timeout asked for,
                   \* the calls of tuner->HasLock() and of SleepMs so far
  dev,             \* the device on which each thread has called SetChannelDevice
  \* ---- queries ----
  qev              \* the query of the host: what it reads and what it returned

pidVars == <<filters, tunerPids, pev>>

tuneVars == <<mtx, pc, arg, currentChannel, serverString, sess, woke, ret, old, made, lockq, dev>>

bufVars == <<dvrIsOpen, bytesDelivered, checkTsBufferM, tsBuffer, given, ev, writes,
            tunerIsOpen>>

queryVars == <<qev>>

vars == <<bufVars, pidVars, tuneVars, queryVars>>

\* what an operation of one part leaves alone
notBuf == <<pidVars, tuneVars, queryVars>>

notPid == <<bufVars, tuneVars, queryVars>>

notTune == <<bufVars, pidVars, queryVars>>

notQuery == <<bufVars, pidVars, tuneVars>>

Min(a, b) == IF a < b THEN a ELSE b

Zeros(n) == [i \in 1..n |-> 0]

(***************************************************************************)
(* cSatipDevice::cSatipDevice: the size of the ring buffer.                *)
(***************************************************************************)
SATIP_BUFFER_SIZE == BufPackets * TS_SIZE + 12

bufsize == SATIP_BUFFER_SIZE - (SATIP_BUFFER_SIZE % TS_SIZE)

\* new cRingBufferLinear(bufsize + 1, TS_SIZE)
RBSize == bufsize + 1

RBMargin == TS_SIZE

(***************************************************************************)
(* cRingBufferLinear (VDR): head and tail are offsets into the byte array, *)
(* data is the buffered content from tail to head, oldest byte first.      *)
(***************************************************************************)
RBNew == [head |-> RBMargin, tail |-> RBMargin, gotten |-> 0, data |-> <<>>]

RBAvailable(b) ==
  LET diff == b.head - b.tail
  IN  IF diff >= 0 THEN diff ELSE RBSize + diff - RBMargin

\* the free space Put computes
RBPutFree(b) ==
  LET rest == RBSize - b.head
      diff == b.tail - b.head
  IN  (IF b.tail < RBMargin THEN rest
       ELSE IF diff > 0 THEN diff
       ELSE RBSize + diff - RBMargin) - 1

\* the number of bytes Put(Data, Count) stores
RBPutCount(b, bytes) ==
  IF Len(bytes) > 0 /\ RBPutFree(b) > 0 THEN Min(RBPutFree(b), Len(bytes)) ELSE 0

RBPut(b, bytes) ==
  LET n    == RBPutCount(b, bytes)
      rest == RBSize - b.head
  IN  IF n = 0 THEN b
      ELSE [b EXCEPT !.head = IF n >= rest THEN RBMargin + n - rest ELSE b.head + n,
                     !.data = b.data \o SubSeq(bytes, 1, n)]

\* Get moves a tail shorter than the margin in front of the margin
RBGetTail(b) ==
  LET rest == RBSize - b.tail
  IN  IF rest < RBMargin /\ b.head < b.tail THEN RBMargin - rest ELSE b.tail

\* the length of the contiguous run Get returns, 0 for NULL
RBGetCount(b) ==
  LET tail == RBGetTail(b)
      rest == IF tail = b.tail THEN RBSize - b.tail ELSE b.head - tail
      diff == b.head - tail
      cont == IF diff >= 0 THEN diff ELSE RBSize + diff - RBMargin
      c    == Min(cont, rest)
  IN  IF c >= RBMargin THEN c ELSE 0

RBGet(b) ==
  LET c == RBGetCount(b)
  IN  [b EXCEPT !.tail = RBGetTail(b),
                !.gotten = IF c > 0 THEN c ELSE b.gotten]

RBDel(b, Count) ==
  LET n    == Min(Count, b.gotten)
      tail == b.tail + n
  IN  IF n > 0
      THEN [b EXCEPT !.tail = IF tail >= RBSize THEN RBMargin ELSE tail,
                     !.gotten = b.gotten - n,
                     !.data = SubSeq(b.data, n + 1, Len(b.data))]
      ELSE b

RBClear(b) == [b EXCEPT !.tail = b.head, !.data = <<>>]


(***************************************************************************)
(* Inputs of the delivery path: the chunks the tuner hands to WriteData.   *)
(***************************************************************************)
\* an aligned packet of PID 0x111 whose payload holds a sync byte at offset 100
PktB == <<TS_SYNC_BYTE, 1, 17, 16>> \o Zeros(96) \o <<TS_SYNC_BYTE>> \o Zeros(TS_SIZE - 101)

\* two stray bytes, a sync byte and 186 further bytes: 189 bytes
Desync == <<0, 0, TS_SYNC_BYTE>> \o Zeros(TS_SIZE - 2)

\* a packet's length of bytes without any sync byte
Junk == Zeros(TS_SIZE)

Chunks == {PktB, Desync, Junk}

(***************************************************************************)
(* common.h: ts_pid() and payload() of a TS packet (p[1] is the C p[0]).   *)
(***************************************************************************)
ts_pid(p) == (p[2] % 32) * 256 + p[3]

payload(p) ==
  IF (p[4] \div 16) % 2 = 0 THEN 0
  ELSE IF (p[4] \div 32) % 2 = 1
       THEN (IF p[5] > 183 THEN 0 ELSE 183 - p[5])
       ELSE 184

(***************************************************************************)
(* The record of the last delivery operation.                              *)
(***************************************************************************)
EvNone ==
  [op       |-> "none",
   open     |-> FALSE,   \* dvrIsOpen when the operation began
   bytes    |-> <<>>,    \* WriteData: bufferP
   req      |-> 0,       \* WriteData: lengthP
   acc      |-> 0,       \* WriteData: what tsBuffer->Put returned
   ovf      |-> <<>>,    \* WriteData: the arguments of ReportOverflow
   fwd      |-> <<>>,    \* WriteData: the buffers given to SectionFilterHandler->Write
   called   |-> FALSE,   \* GetTSPacket: GetData was called
   p        |-> FALSE,   \* GetData returned a pointer, not NULL
   run      |-> <<>>,    \* GetData: the run tsBuffer->Get returned
   skip     |-> <<>>,    \* GetData: the counts of "Skipped %d bytes"
   released |-> 0,       \* GetData: bytes deleted for bytesDelivered
   dataP    |-> "null",  \* GetTSPacket: dataP is NULL, in tsBuffer, or the CAM's
   overlap  |-> FALSE,   \* GetTSPacket: dataP holds bytes handed out before
   pidStat  |-> <<>>,    \* the arguments of AddPidStatistic
   bufStat  |-> <<>>,    \* the arguments of AddBufferStatistic
   tuner    |-> <<>>]    \* the calls made to the tuner: "Open", "Close"

(***************************************************************************)
(* cSatipDevice::GetData                                                   *)
(***************************************************************************)
\* mutant: the delivered packet is not deleted before the next Get
ReleaseNothing(b, delivered) == b

\* if (bytesDelivered) { tsBuffer->Del(bytesDelivered); bytesDelivered = 0; }
ReleaseDelivered(b, delivered) ==
  IF delivered # 0 THEN RBDel(b, delivered) ELSE b

\* mutant: the scan starts at offset 2 instead of 1
SyncScanLate(p, count) ==
  LET hits == {i \in 2..(count - 1) : p[i + 1] = TS_SYNC_BYTE}
  IN  IF hits = {} THEN count
      ELSE CHOOSE i \in hits : \A j \in hits : i <= j

\* mutant: no scan, the whole run is dropped
SyncScanNone(p, count) == count

\* the for loop: count after the scan for the next sync byte from offset 1
SyncScan(p, count) ==
  LET hits == {i \in 1..(count - 1) : p[i + 1] = TS_SYNC_BYTE}
  IN  IF hits = {} THEN count
      ELSE CHOOSE i \in hits : \A j \in hits : i <= j

\* if (checkTsBuffer && tsBuffer->Available() < TS_SIZE) return NULL;
TooShort(b, checkTsBuffer) == checkTsBuffer /\ RBAvailable(b) < TS_SIZE

\* mutant: the first byte is not compared with the sync byte
InSyncAlways(p) == TRUE

\* the first byte of the run is the sync byte
InSync(p) == p[1] = TS_SYNC_BYTE

\* the result of GetData: the buffer and bytesDelivered after it, whether it
\* returned a pointer, *availableP, the run Get returned and what it reported
GetData(open, b, delivered, checkTsBuffer) ==
  LET none == [buf |-> b, delivered |-> delivered, p |-> FALSE, count |-> 0,
               run |-> <<>>, skip |-> <<>>, pidStat |-> <<>>]
  IN  IF ~open THEN none
      ELSE
        LET b1 == ReleaseDelivered(b, delivered)
        IN  IF TooShort(b1, checkTsBuffer)
            THEN [none EXCEPT !.buf = b1, !.delivered = 0]
            ELSE
              LET count == RBGetCount(b1)
                  b2    == RBGet(b1)
                  run   == SubSeq(b2.data, 1, count)
              IN  IF count >= TS_SIZE
                  THEN IF ~InSync(run)
                       THEN LET n == SyncScan(run, count)
                            IN  [none EXCEPT !.buf = RBDel(b2, n), !.delivered = 0,
                                             !.run = run, !.skip = <<n>>]
                       ELSE [none EXCEPT !.buf = b2, !.delivered = TS_SIZE,
                                         !.p = TRUE, !.count = count, !.run = run,
                                         !.pidStat = <<<<ts_pid(run), payload(run)>>>>]
                  ELSE [none EXCEPT !.buf = b2, !.delivered = 0]

\* how many of the bytes handed out are still buffered once the buffer went
\* from b to b1 by deleting from its front
StillGiven(g, b, b1) ==
  LET gone == Len(b.data) - Len(b1.data)
  IN  IF g > gone THEN g - gone ELSE 0

(***************************************************************************)
(* cSatipDevice::WriteData                                                 *)
(***************************************************************************)
\* the buffer after the "Fill up TS buffer" block
WriteBuffer(open, b, bytes) == IF open THEN RBPut(b, bytes) ELSE b

\* mutant: the whole length is reported as overflow
WriteOverflowAll(open, b, bytes) ==
  IF open /\ RBPutCount(b, bytes) # Len(bytes) THEN <<Len(bytes)>> ELSE <<>>

\* the ReportOverflow calls of the block
WriteOverflow(open, b, bytes) ==
  IF open /\ RBPutCount(b, bytes) # Len(bytes)
  THEN <<Len(bytes) - RBPutCount(b, bytes)>>
  ELSE <<>>

\* mutant: the filters are fed only while the DVR is open
WriteFilterIfOpen(open, bytes) == IF open THEN <<bytes>> ELSE <<>>

\* the SectionFilterHandler->Write calls
WriteFilter(open, bytes) == <<bytes>>

WriteData(bytes) ==
  /\ writes < MaxWrites
  /\ writes' = writes + 1
  /\ tsBuffer' = WriteBuffer(dvrIsOpen, tsBuffer, bytes)
  /\ ev' = [EvNone EXCEPT !.op = "WriteData", !.open = dvrIsOpen,
                          !.bytes = bytes, !.req = Len(bytes),
                          !.acc = IF dvrIsOpen THEN RBPutCount(tsBuffer, bytes) ELSE 0,
                          !.ovf = WriteOverflow(dvrIsOpen, tsBuffer, bytes),
                          !.fwd = WriteFilter(dvrIsOpen, bytes)]
  /\ UNCHANGED <<dvrIsOpen, bytesDelivered, checkTsBufferM, given, tunerIsOpen>>
  /\ UNCHANGED notBuf

(***************************************************************************)
(* cSatipDevice::OpenDvr and CloseDvr                                      *)
(***************************************************************************)
\* cSatipTuner::Open and Close, as far as the device is concerned
TunerAfter(isOpen, calls) ==
  IF calls = <<>> THEN isOpen ELSE calls[Len(calls)] = "Open"

OpenDvr ==
  /\ bytesDelivered' = 0
  /\ tsBuffer' = RBClear(tsBuffer)
  /\ dvrIsOpen' = TRUE
  /\ given' = 0
  /\ ev' = [EvNone EXCEPT !.op = "OpenDvr", !.open = dvrIsOpen, !.tuner = <<"Open">>]
  /\ tunerIsOpen' = TunerAfter(tunerIsOpen, <<"Open">>)
  /\ UNCHANGED <<checkTsBufferM, writes>>
  /\ UNCHANGED notBuf

\* mutant: the tuner is closed whether the DVR was open or not
CloseCallsAlways(open) == <<"Close">>

\* if (dvrIsOpen) tuner->Close();
CloseCalls(open) == IF open THEN <<"Close">> ELSE <<>>

CloseDvr ==
  /\ dvrIsOpen' = FALSE
  /\ ev' = [EvNone EXCEPT !.op = "CloseDvr", !.open = dvrIsOpen,
                          !.tuner = CloseCalls(dvrIsOpen)]
  /\ tunerIsOpen' = TunerAfter(tunerIsOpen, CloseCalls(dvrIsOpen))
  /\ UNCHANGED <<bytesDelivered, checkTsBufferM, tsBuffer, given, writes>>
  /\ UNCHANGED notBuf

(***************************************************************************)
(* cSatipDevice::GetTSPacket with SkipData                                 *)
(***************************************************************************)
\* SatipConfig.GetDetachedMode(): return false, dataP untouched
GetTSPacketDetached ==
  /\ ev' = [EvNone EXCEPT !.op = "GetTSPacket", !.open = dvrIsOpen]
  /\ UNCHANGED <<dvrIsOpen, bytesDelivered, checkTsBufferM, tsBuffer, given, writes,
                 tunerIsOpen>>
  /\ UNCHANGED notBuf

\* no CAM slot, or one that does not want the TS data: dataP = GetData()
GetTSPacketDirect ==
  LET r  == GetData(dvrIsOpen, tsBuffer, bytesDelivered, FALSE)
      g1 == StillGiven(given, tsBuffer, ReleaseDelivered(tsBuffer, bytesDelivered))
      g  == IF dvrIsOpen THEN g1 ELSE given
  IN  /\ tsBuffer' = r.buf
      /\ bytesDelivered' = r.delivered
      /\ given' = IF r.p THEN TS_SIZE ELSE StillGiven(given, tsBuffer, r.buf)
      /\ ev' = [EvNone EXCEPT !.op = "GetTSPacket", !.open = dvrIsOpen,
                              !.called = TRUE, !.p = r.p, !.run = r.run,
                              !.skip = r.skip,
                              !.released = IF dvrIsOpen
                                           THEN Len(tsBuffer.data)
                                                - Len(ReleaseDelivered(tsBuffer, bytesDelivered).data)
                                           ELSE 0,
                              !.dataP = IF r.p THEN "buffer" ELSE "null",
                              !.overlap = r.p /\ g > 0,
                              !.pidStat = r.pidStat]
      /\ UNCHANGED <<dvrIsOpen, checkTsBufferM, writes, tunerIsOpen>>
      /\ UNCHANGED notBuf

\* a CAM slot that wants the TS data.  cCamSlot::Decrypt(Data, Count):
\*   inplace: returns Data and sets Count to TS_SIZE when Data is not NULL;
\*   buffer:  sets Count to the bytes it read from Data (consumed) and returns
\*            a packet of its own buffer (out) or NULL.
GetTSPacketCam(inplace, consumed, out) ==
  LET r  == GetData(dvrIsOpen, tsBuffer, bytesDelivered, checkTsBufferM)
      g1 == StillGiven(given, tsBuffer, ReleaseDelivered(tsBuffer, bytesDelivered))
      g  == IF dvrIsOpen THEN g1 ELSE given
      available == IF r.p THEN r.count ELSE 0
      count == IF inplace THEN (IF r.p THEN TS_SIZE ELSE available)
               ELSE Min(consumed, available)
      dataP == IF inplace THEN (IF r.p THEN "buffer" ELSE "null")
               ELSE (IF out THEN "cam" ELSE "null")
  IN  /\ tsBuffer' = r.buf
      \* SkipData(available)
      /\ bytesDelivered' = count
      /\ checkTsBufferM' = (dataP # "null")
      /\ given' = IF dataP = "buffer" THEN TS_SIZE
                  ELSE StillGiven(given, tsBuffer, r.buf)
      /\ ev' = [EvNone EXCEPT !.op = "GetTSPacket", !.open = dvrIsOpen,
                              !.called = TRUE, !.p = r.p, !.run = r.run,
                              !.skip = r.skip,
                              !.released = IF dvrIsOpen
                                           THEN Len(tsBuffer.data)
                                                - Len(ReleaseDelivered(tsBuffer, bytesDelivered).data)
                                           ELSE 0,
                              !.dataP = dataP,
                              !.overlap = (dataP = "buffer") /\ g > 0,
                              !.pidStat = r.pidStat,
                              !.bufStat = <<<<count, RBAvailable(r.buf)>>>>]
      /\ UNCHANGED <<dvrIsOpen, writes, tunerIsOpen>>
      /\ UNCHANGED notBuf

GetTSPacket ==
  \/ GetTSPacketDetached
  \/ GetTSPacketDirect
  \/ GetTSPacketCam(TRUE, TS_SIZE, FALSE)
  \/ \E k \in {0, TS_SIZE, bufsize}, out \in BOOLEAN : GetTSPacketCam(FALSE, k, out)

(***************************************************************************)
(* The delivery path: the tuner thread writes, the receiver thread reads,  *)
(* the host opens and closes the DVR.                                      *)
(***************************************************************************)
(***************************************************************************)
(* The PIDs and section filters.                                           *)
(***************************************************************************)
\* the PIDs the host passes in a cPidHandle
PidInputs == {-1, 0, 17, MAXPID, MAXPID + 1, 100000}

\* the PIDs section filters are opened for
FilterPids == {0, 17}

\* ptAudio and ptOther of the host's ePidType
PidTypes == {0, 4}

ptOther == 4

\* cPidHandle *handleP: NULL, or a handle with its pid and its use count
Handles ==
  {[null |-> TRUE, pid |-> 0, used |-> 0]}
    \cup [null : {FALSE}, pid : PidInputs, used : 0..MaxUsed]

\* cSatipSectionFilterHandler::Exists(pid)
SFExists(flt, pid) == \E h \in DOMAIN flt : flt[h] # -1 /\ flt[h] = pid

\* cSatipSectionFilterHandler::GetPid(handle)
SFGetPid(flt, h) == IF h \in DOMAIN flt THEN flt[h] ELSE -1

\* cSatipSectionFilterHandler::Open(pid, tid, mask): the handle, -1 when no slot is free
SFOpenHandle(flt, pid) ==
  IF \E h \in DOMAIN flt : flt[h] = -1
  THEN CHOOSE h \in DOMAIN flt : flt[h] = -1 /\ \A g \in DOMAIN flt : flt[g] = -1 => h <= g
  ELSE -1

SFOpen(flt, pid) ==
  IF SFOpenHandle(flt, pid) >= 0 THEN [flt EXCEPT ![SFOpenHandle(flt, pid)] = pid] ELSE flt

\* cSatipSectionFilterHandler::Close(handle)
SFClose(flt, h) == IF h \in DOMAIN flt THEN [flt EXCEPT ![h] = -1] ELSE flt

\* cSatipTuner::SetPid(pid, type, on) for each call of a sequence, in order
RECURSIVE TunerSetPids(_, _)
TunerSetPids(pids, calls) ==
  IF calls = <<>> THEN pids
  ELSE TunerSetPids(IF calls[1].on THEN pids \cup {calls[1].pid}
                    ELSE pids \ {calls[1].pid}, Tail(calls))

\* mutant: the upper end of the PID range is off by one
PidInRangeWide(pid) == pid >= 0 /\ pid <= MAXPID + 1

\* handleP->pid >= 0 && handleP->pid <= 8191
PidInRange(pid) == pid >= 0 /\ pid <= MAXPID

\* mutant: an open section filter does not keep the PID
StillNeededByUse(handle, flt) == handle.used # 0

\* the negation of !handleP->used && !SectionFilterHandler->Exists(handleP->pid)
StillNeeded(handle, flt) == handle.used # 0 \/ SFExists(flt, handle.pid)

\* cSatipDevice::SetPid: the calls it makes to tuner->SetPid
SetPidCalls(handle, type, on, flt) ==
  IF ~handle.null /\ PidInRange(handle.pid)
  THEN IF on THEN <<[pid |-> handle.pid, type |-> type, on |-> TRUE]>>
       ELSE IF ~StillNeeded(handle, flt)
            THEN <<[pid |-> handle.pid, type |-> type, on |-> FALSE]>>
            ELSE <<>>
  ELSE <<>>

SetPid(handle, type, on) ==
  LET calls == SetPidCalls(handle, type, on, filters)
  IN  /\ tunerPids' = TunerSetPids(tunerPids, calls)
      /\ pev' = [op |-> "SetPid", null |-> handle.null, pid |-> handle.pid,
                 type |-> type, on |-> on, used |-> handle.used, handle |-> -1,
                 ret |-> TRUE, calls |-> calls]
      /\ UNCHANGED filters
      /\ UNCHANGED notPid

\* cSatipDevice::OpenFilter: the calls it makes to tuner->SetPid
OpenFilterCalls(flt, pid) ==
  IF SFOpenHandle(flt, pid) >= 0
  THEN <<[pid |-> pid, type |-> ptOther, on |-> TRUE]>>
  ELSE <<>>

OpenFilter(pid) ==
  LET calls == OpenFilterCalls(filters, pid)
  IN  /\ filters' = SFOpen(filters, pid)
      /\ tunerPids' = TunerSetPids(tunerPids, calls)
      /\ pev' = [op |-> "OpenFilter", null |-> FALSE, pid |-> pid, type |-> ptOther,
                 on |-> TRUE, used |-> 0, handle |-> SFOpenHandle(filters, pid),
                 ret |-> TRUE, calls |-> calls]
      /\ UNCHANGED notPid

\* cSatipDevice::CloseFilter: the calls it makes to tuner->SetPid
CloseFilterCalls(flt, h) ==
  <<[pid |-> SFGetPid(flt, h), type |-> ptOther, on |-> FALSE]>>

CloseFilter(h) ==
  LET calls == CloseFilterCalls(filters, h)
  IN  /\ tunerPids' = TunerSetPids(tunerPids, calls)
      /\ filters' = SFClose(filters, h)
      /\ pev' = [op |-> "CloseFilter", null |-> FALSE, pid |-> SFGetPid(filters, h),
                 type |-> ptOther, on |-> FALSE, used |-> 0, handle |-> h,
                 ret |-> TRUE, calls |-> calls]
      /\ UNCHANGED notPid

NextPid ==
  \/ \E handle \in Handles, type \in PidTypes, on \in BOOLEAN : SetPid(handle, type, on)
  \/ \E pid \in FilterPids : OpenFilter(pid)
  \/ \E h \in -1..MaxFilters : CloseFilter(h)

(***************************************************************************)
(* The channel switch: the threads of the host that call SetChannelDevice, *)
(* each on its device, the tuner of each device, which calls               *)
(* SetChannelTuned from its own thread, the destructor, and HasLock.       *)
(***************************************************************************)
Devices == 1..NumDevices

\* the threads of the host that call SetChannelDevice
Callers == 1..NumCallers

\* the device whose SetChannelDevice thread c is in (this)
DeviceOf(c) == dev[c]

\* const cChannel *channel: nullptr, a channel whose parameters translate,
\* a channel whose parameters GetTransponderUrlParameters cannot translate
ChannelArgs == {"null", "chA", "chBad"}

\* cSatipDiscover::AssignServer: a server, or none
ServerResults == {"none", "server1"}

\* GetTransponderUrlParameters(channel) is not empty
Translatable(ch) == ch = "chA"

\* cSatipDiscover::GetServerString(server)
GetServerString(server) == server

\* tuner != nullptr: the destructor has not run
TunerExists(s) == s # "gone"

\* tuner->HasLock(): the session reports a lock once it is tuned
TunerHasLock(s) == s = "tuned"

\* mutant: SetChannelDevice takes no lock
CanLockAlways(m) == TRUE

\* cMutexLock MutexLock(&SetChannelMtx): the caller gets the mutex when it is free
CanLock(m) == m = 0

\* mutant: TimedWait returns without taking the mutex again
CanRelockAlways(m) == TRUE

\* pthread_cond_timedwait takes the mutex again before TimedWait returns
CanRelock(m) == m = 0

\* mutant: the result of TimedWait is the result of the call
AfterWaitSignalled(w) == w = "signal"

\* tunerLocked.TimedWait(...); return true;  whatever ended the wait
AfterWait(w) == TRUE

\* mutant: pthread_cond_signal, one waiter is woken
SignalOne(waiters) ==
  IF waiters = {} THEN {} ELSE {CHOOSE w \in waiters : TRUE}

\* tunerLocked.Broadcast(): every thread that waits on the condition is woken
Broadcast(waiters) == waiters

\* the threads blocked in tunerLocked.TimedWait of device d
Waiters(d) == {c \in Callers : DeviceOf(c) = d /\ pc[c] = "waiting"}

Returned(c, value) ==
  /\ pc' = [pc EXCEPT ![c] = "returned"]
  /\ ret' = [ret EXCEPT ![c] = value]

\* cSatipDevice::SetChannelDevice, entered: the lock is taken
SC_Enter(c, d, ch) ==
  /\ pc[c] = "idle"
  /\ TunerExists(sess[d])
  /\ CanLock(mtx)
  /\ mtx' = c
  /\ pc' = [pc EXCEPT ![c] = "locked"]
  /\ dev' = [dev EXCEPT ![c] = d]
  /\ arg' = [arg EXCEPT ![c] = ch]
  /\ old' = [old EXCEPT ![c] = <<currentChannel[d], serverString[d]>>]
  /\ made' = [made EXCEPT ![c] = <<>>]
  /\ UNCHANGED <<currentChannel, serverString, sess, woke, ret, lockq>>
  /\ UNCHANGED notTune

\* channel == nullptr: tuner->SetSource(nullptr, ...); serverString.clear(); return true
SC_Detune(c) ==
  /\ pc[c] = "locked"
  /\ arg[c] = "null"
  /\ made' = [made EXCEPT ![c] = Append(@, "SetSource(null)")]
  /\ sess' = [sess EXCEPT ![DeviceOf(c)] = "idle"]
  /\ serverString' = [serverString EXCEPT ![DeviceOf(c)] = ""]
  /\ Returned(c, TRUE)
  /\ UNCHANGED <<mtx, arg, currentChannel, woke, old, lockq, dev>>
  /\ UNCHANGED notTune

\* params.empty(): return false
SC_BadParams(c) ==
  /\ pc[c] = "locked"
  /\ arg[c] # "null"
  /\ ~Translatable(arg[c])
  /\ Returned(c, FALSE)
  /\ UNCHANGED <<mtx, arg, currentChannel, serverString, sess, woke, old, made, lockq, dev>>
  /\ UNCHANGED notTune

\* discover->AssignServer(...) is called
SC_CallAssign(c) ==
  /\ pc[c] = "locked"
  /\ arg[c] # "null"
  /\ Translatable(arg[c])
  /\ pc' = [pc EXCEPT ![c] = "assign"]
  /\ made' = [made EXCEPT ![c] = Append(@, "AssignServer")]
  /\ UNCHANGED <<mtx, arg, currentChannel, serverString, sess, woke, ret, old, lockq, dev>>
  /\ UNCHANGED notTune

\* mutant: serverString is assigned before the server is tested
AssignedStringEarly(server, str) == GetServerString(server)

\* if (!server) return false;  serverString = *discover->GetServerString(server);
AssignedString(server, str) ==
  IF server = "none" THEN str ELSE GetServerString(server)

\* AssignServer returns: no server, return false; else serverString is set
SC_Assigned(c, server) ==
  /\ pc[c] = "assign"
  /\ serverString' = [serverString EXCEPT
                        ![DeviceOf(c)] = AssignedString(server, @)]
  /\ IF server = "none"
     THEN Returned(c, FALSE)
     ELSE /\ pc' = [pc EXCEPT ![c] = "tune"]
          /\ UNCHANGED ret
  /\ UNCHANGED <<mtx, arg, currentChannel, sess, woke, old, made, lockq, dev>>
  /\ UNCHANGED notTune

\* tuner->SetSource(server, ...): accepted, currentChannel = *channel and the
\* wait is next; rejected, the call falls through to return true
SC_SetSource(c, accepted) ==
  /\ pc[c] = "tune"
  /\ made' = [made EXCEPT ![c] = Append(@, "SetSource")]
  /\ IF accepted
     THEN /\ currentChannel' = [currentChannel EXCEPT ![DeviceOf(c)] = arg[c]]
          /\ sess' = [sess EXCEPT ![DeviceOf(c)] = "tuning"]
          /\ pc' = [pc EXCEPT ![c] = "prewait"]
          /\ old' = [old EXCEPT ![c] = <<"none", "">>]
          /\ UNCHANGED ret
     ELSE /\ Returned(c, TRUE)
          /\ UNCHANGED <<currentChannel, sess, old>>
  /\ UNCHANGED <<mtx, arg, serverString, woke, lockq, dev>>
  /\ UNCHANGED notTune

\* tunerLocked.TimedWait(SetChannelMtx, eTuningTimeoutMs) begins: the mutex
\* is released and the caller waits
SC_Wait(c) ==
  /\ pc[c] = "prewait"
  /\ pc' = [pc EXCEPT ![c] = "waiting"]
  /\ mtx' = 0
  /\ UNCHANGED <<arg, currentChannel, serverString, sess, woke, ret, old, made, lockq, dev>>
  /\ UNCHANGED notTune

\* the wait ends after eTuningTimeoutMs without a signal
SC_Timeout(c) ==
  /\ pc[c] = "waiting"
  /\ pc' = [pc EXCEPT ![c] = "woken"]
  /\ woke' = [woke EXCEPT ![c] = "timeout"]
  /\ UNCHANGED <<mtx, arg, currentChannel, serverString, sess, ret, old, made, lockq, dev>>
  /\ UNCHANGED notTune

\* TimedWait returns with the mutex held again: return true
SC_Wake(c) ==
  /\ pc[c] = "woken"
  /\ CanRelock(mtx)
  /\ mtx' = c
  /\ Returned(c, AfterWait(woke[c]))
  /\ UNCHANGED <<arg, currentChannel, serverString, sess, woke, old, made, lockq, dev>>
  /\ UNCHANGED notTune

\* the call returns: ~cMutexLock releases the mutex (the history of the call
\* ends with it)
SC_Return(c) ==
  /\ pc[c] = "returned"
  /\ pc' = [pc EXCEPT ![c] = "idle"]
  /\ mtx' = 0
  /\ arg' = [arg EXCEPT ![c] = "none"]
  /\ woke' = [woke EXCEPT ![c] = "none"]
  /\ ret' = [ret EXCEPT ![c] = TRUE]
  /\ old' = [old EXCEPT ![c] = <<"none", "">>]
  /\ made' = [made EXCEPT ![c] = <<>>]
  /\ dev' = [dev EXCEPT ![c] = 0]
  /\ UNCHANGED <<currentChannel, serverString, sess, lockq>>
  /\ UNCHANGED notTune

\* the threads that tunerLocked.Broadcast() of device d takes out of the wait
Woken(d) ==
  [c \in Callers |-> IF c \in Broadcast(Waiters(d)) THEN "woken" ELSE pc[c]]

WokenBy(d) ==
  [c \in Callers |-> IF c \in Broadcast(Waiters(d)) THEN "signal" ELSE woke[c]]

\* cSatipDevice::SetChannelTuned, called by the tuner once it is tuned:
\* tunerLocked.Broadcast()
SetChannelTuned(d) ==
  /\ sess[d] = "tuning"
  /\ sess' = [sess EXCEPT ![d] = "tuned"]
  /\ pc' = Woken(d)
  /\ woke' = WokenBy(d)
  /\ UNCHANGED <<mtx, arg, currentChannel, serverString, ret, old, made, lockq, dev>>
  /\ UNCHANGED notTune

\* cSatipDevice::~cSatipDevice: tunerLocked.Broadcast(), then the tuner is
\* deleted.  The host destroys a device only while none of its callers is
\* between the lock and the wait.
Destroy(d) ==
  /\ TunerExists(sess[d])
  /\ \A c \in Callers : DeviceOf(c) = d => pc[c] \in {"waiting", "woken"}
  /\ lockq.dev # d \/ lockq.res # "polling"
  /\ sess' = [sess EXCEPT ![d] = "gone"]
  /\ currentChannel' = [currentChannel EXCEPT ![d] = "none"]
  /\ serverString' = [serverString EXCEPT ![d] = ""]
  /\ pc' = Woken(d)
  /\ woke' = WokenBy(d)
  /\ UNCHANGED <<mtx, arg, ret, old, made, lockq, dev>>
  /\ UNCHANGED notTune

\* static constexpr int interval = 100
interval == 100

\* int timeout of HasLock
LockTimeouts == {0, interval}

\* int timeout of HasLock, over its range: negative, zero, a part of an
\* interval, whole intervals and intervals and a half
PollTimeouts ==
  {-interval, 0, 1} \cup {k * (interval \div 2) : k \in 1..(2 * MaxPolls)}

\* mutant: while (timeout >= 0)
KeepsPollingAtZero(timeout) == timeout >= 0

\* while (timeout > 0)
KeepsPolling(timeout) == timeout > 0

\* cSatipDevice::HasLock(timeout) is called
HL_Begin(d, timeout) ==
  /\ lockq.res # "polling"
  /\ TunerExists(sess[d])
  /\ lockq' = [dev |-> d, left |-> timeout, res |-> "polling",
               asked |-> timeout, queries |-> 0, sleeps |-> 0]
  /\ UNCHANGED <<mtx, pc, arg, currentChannel, serverString, sess, woke, ret, old, made, dev>>
  /\ UNCHANGED notTune

\* one round of the loop of HasLock, or the statement after it
HL_Poll ==
  /\ lockq.res = "polling"
  /\ LET has == TunerHasLock(sess[lockq.dev])
     IN  IF KeepsPolling(lockq.left)
         THEN IF has
              THEN lockq' = [lockq EXCEPT !.left = 0, !.res = "true",
                                          !.queries = @ + 1]
              ELSE lockq' = [lockq EXCEPT !.left = @ - interval,
                                          !.queries = @ + 1,
                                          !.sleeps = @ + 1]
         ELSE lockq' = [lockq EXCEPT !.left = 0,
                                     !.res = IF has THEN "true" ELSE "false",
                                     !.queries = @ + 1]
  /\ UNCHANGED <<mtx, pc, arg, currentChannel, serverString, sess, woke, ret, old, made, dev>>
  /\ UNCHANGED notTune

InitTune ==
  /\ mtx = 0
  /\ pc = [c \in Callers |-> "idle"]
  /\ arg = [c \in Callers |-> "none"]
  /\ currentChannel = [d \in Devices |-> "none"]
  /\ serverString = [d \in Devices |-> ""]
  /\ sess = [d \in Devices |-> "idle"]
  /\ woke = [c \in Callers |-> "none"]
  /\ ret = [c \in Callers |-> TRUE]
  /\ old = [c \in Callers |-> <<"none", "">>]
  /\ made = [c \in Callers |-> <<>>]
  /\ lockq = [dev |-> 0, left |-> 0, res |-> "none",
              asked |-> 0, queries |-> 0, sleeps |-> 0]
  /\ dev = [c \in Callers |-> 0]

\* a step of the SetChannelDevice call of thread c that needs nothing but
\* the processor
SC_Step(c) ==
  \/ SC_Detune(c)
  \/ SC_BadParams(c)
  \/ SC_CallAssign(c)
  \/ \E server \in ServerResults : SC_Assigned(c, server)
  \/ \E accepted \in BOOLEAN : SC_SetSource(c, accepted)
  \/ SC_Wait(c)
  \/ SC_Return(c)

NextTune ==
  \/ \E c \in Callers :
       \/ \E d \in Devices, ch \in ChannelArgs : SC_Enter(c, d, ch)
       \/ SC_Step(c)
       \/ SC_Timeout(c)
       \/ SC_Wake(c)
  \/ \E d \in Devices : SetChannelTuned(d) \/ Destroy(d)

NextLock ==
  \/ NextTune
  \/ \E d \in Devices, timeout \in LockTimeouts : HL_Begin(d, timeout)
  \/ HL_Poll

\* the thread that switches channels while another polls HasLock
Switcher == CHOOSE c \in Callers : TRUE

\* One thread switches channels, the tuner signals, and a thread of the host
\* asks HasLock with any timeout.
NextPoll ==
  \/ \E d \in Devices, ch \in ChannelArgs : SC_Enter(Switcher, d, ch)
  \/ SC_Step(Switcher)
  \/ SC_Timeout(Switcher)
  \/ SC_Wake(Switcher)
  \/ \E d \in Devices : SetChannelTuned(d) \/ Destroy(d)
  \/ \E d \in Devices, timeout \in PollTimeouts : HL_Begin(d, timeout)
  \/ HL_Poll

(***************************************************************************)
(* The queries of the host: IsTunedToTransponder and ProvidesChannel.      *)
(* They only read the device; what they read is drawn as an input.         *)
(***************************************************************************)
\* IDLEPRIORITY of VDR (MINPRIORITY - 1)
IDLEPRIORITY == -100

\* channels by what the queries compare: Source(), Transponder(), Parameters()
Channel(s, t, p) == [source |-> s, transponder |-> t, parameters |-> p]

QueryChannels ==
  {Channel(s, t, p) : s \in {"S19.2E", "T"}, t \in {11000, 12000}, p \in {"H", "V"}}

\* strcmp(a, b) == 0
StrEqual(a, b) == a = b

\* mutant: the parameter strings are not compared
IsTunedIgnoringParameters(tunerExists, isTuned, cur, ch) ==
  IF tunerExists /\ ~isTuned THEN FALSE
  ELSE IF cur.source # ch.source \/ cur.transponder # ch.transponder THEN FALSE
  ELSE TRUE

\* cSatipDevice::IsTunedToTransponder(channelP); isTuned is tuner->IsTuned()
\* and cur is currentChannel
IsTunedToTransponder(tunerExists, isTuned, cur, ch) ==
  IF tunerExists /\ ~isTuned THEN FALSE
  ELSE IF cur.source # ch.source \/ cur.transponder # ch.transponder THEN FALSE
  ELSE StrEqual(cur.parameters, ch.parameters)

\* mutant: a request of the same priority has priority
HasPriorityOrEqual(priorityP, devPriority) ==
  priorityP = IDLEPRIORITY \/ priorityP >= devPriority

\* bool hasPriority = (priorityP == IDLEPRIORITY) || (priorityP > this->Priority())
HasPriority(priorityP, devPriority) ==
  priorityP = IDLEPRIORITY \/ priorityP > devPriority

\* cSatipDevice::ProvidesChannel(channelP, priorityP, needsDetachReceiversP).
\* i holds what the function reads: channel (FALSE for nullptr), provides
\* (ProvidesTransponder), priority, devPriority (Priority()), receiving
\* (Receiving()), tuned (IsTunedToTransponder), pidMissing (a Vpid, Apid or
\* Dpid of the channel that HasPid does not have), cam (CamSlot()), encrypted
\* (Ca() >= CA_ENCRYPTED_MIN), canDecrypt (CamSlot()->CanDecrypt), reuse
\* (SatipConfig.GetFrontendReuse()).
ProvidesChannel(i) ==
  LET hasPriority == HasPriority(i.priority, i.devPriority)
      inner ==
        IF i.priority > IDLEPRIORITY /\ i.receiving
        THEN IF i.tuned
             THEN IF i.pidMissing
                  THEN IF i.cam /\ i.encrypted
                       THEN IF i.canDecrypt
                            THEN [result |-> TRUE, needsDetachReceivers |-> FALSE]
                            ELSE [result |-> hasPriority, needsDetachReceivers |-> TRUE]
                       ELSE [result |-> TRUE, needsDetachReceivers |-> FALSE]
                  ELSE [result |-> i.reuse, needsDetachReceivers |-> FALSE]
             ELSE [result |-> hasPriority, needsDetachReceivers |-> TRUE]
        ELSE [result |-> hasPriority, needsDetachReceivers |-> FALSE]
  IN  IF i.channel /\ i.provides
      THEN inner
      ELSE [result |-> FALSE, needsDetachReceivers |-> FALSE]

\* the inputs of an IsTunedToTransponder query
TunedInputs ==
  [isTuned : BOOLEAN, cur : QueryChannels, ch : QueryChannels]

\* Priority() and Receiving() of VDR: a device that receives has the priority
\* of a receiver; one that does not is idle or shows the live programme (-1)
DeviceLoads ==
  {[receiving |-> FALSE, devPriority |-> IDLEPRIORITY],
   [receiving |-> FALSE, devPriority |-> -1],
   [receiving |-> TRUE, devPriority |-> 0],
   [receiving |-> TRUE, devPriority |-> 50]}

\* the inputs of a ProvidesChannel query
ProvidesInputs ==
  {[channel |-> c, provides |-> p, priority |-> pr,
    devPriority |-> l.devPriority, receiving |-> l.receiving,
    tuned |-> t, pidMissing |-> m, cam |-> cam, encrypted |-> e,
    canDecrypt |-> cd, reuse |-> r] :
     c \in BOOLEAN, p \in BOOLEAN, pr \in {IDLEPRIORITY, 0, 50, 99},
     l \in DeviceLoads, t \in BOOLEAN, m \in BOOLEAN, cam \in BOOLEAN,
     e \in BOOLEAN, cd \in BOOLEAN, r \in BOOLEAN}

QNone == [op |-> "none", in |-> <<>>, out |-> <<>>]

\* the host calls IsTunedToTransponder on a device whose tuner exists
IsTunedToTransponderCall ==
  /\ qev.op = "ask IsTunedToTransponder"
  /\ qev' = [op |-> "IsTunedToTransponder", in |-> qev.in,
             out |-> IsTunedToTransponder(TRUE, qev.in.isTuned, qev.in.cur, qev.in.ch)]
  /\ UNCHANGED notQuery

\* the host calls ProvidesChannel
ProvidesChannelCall ==
  /\ qev.op = "ask ProvidesChannel"
  /\ qev' = [op |-> "ProvidesChannel", in |-> qev.in, out |-> ProvidesChannel(qev.in)]
  /\ UNCHANGED notQuery

InitQuery == qev = QNone

\* a query about to be made, with what it will read
InitAsked ==
  \/ \E i \in TunedInputs : qev = [op |-> "ask IsTunedToTransponder", in |-> i, out |-> <<>>]
  \/ \E i \in ProvidesInputs : qev = [op |-> "ask ProvidesChannel", in |-> i, out |-> <<>>]

NextQuery == IsTunedToTransponderCall \/ ProvidesChannelCall

InitPid ==
  /\ filters = [h \in 0..(MaxFilters - 1) |-> -1]
  /\ tunerPids = {}
  /\ pev = [op |-> "none", null |-> FALSE, pid |-> 0, type |-> 0, on |-> FALSE,
            used |-> 0, handle |-> -1, ret |-> TRUE, calls |-> <<>>]

InitBuf ==
  /\ dvrIsOpen = FALSE
  /\ bytesDelivered = 0
  /\ checkTsBufferM = FALSE
  /\ tsBuffer = RBNew
  /\ given = 0
  /\ ev = EvNone
  /\ writes = 0
  /\ tunerIsOpen = FALSE

Init == InitBuf /\ InitPid /\ InitTune /\ InitQuery

NextBuf ==
  \/ \E bytes \in Chunks : WriteData(bytes)
  \/ OpenDvr
  \/ CloseDvr
  \/ GetTSPacket

SpecBuf == Init /\ [][NextBuf]_vars

SpecPid == Init /\ [][NextPid]_vars

SpecTune == Init /\ [][NextTune]_vars

\* the queries, each applied to what it reads
\* The state in which a query is about to be made on a device at rest.
InitQueries == InitBuf /\ InitPid /\ InitTune /\ InitAsked

SpecQuery == InitQueries /\ [][NextQuery]_vars

\* The scheduling the threads get: a thread inside SetChannelDevice goes on
\* running, the tuning timeout elapses, and a thread that wants SetChannelMtx
\* gets it in the end.  Nothing makes the host call, the tuner signal, or the
\* host destroy a device.
FairCalls ==
  /\ \A c \in Callers : WF_vars(SC_Step(c))
  /\ \A c \in Callers : WF_vars(SC_Timeout(c))
  /\ \A c \in Callers : SF_vars(SC_Wake(c))

\* The channel switch under that scheduling.
SpecTuneFair == Init /\ [][NextTune]_vars /\ FairCalls

\* The channel switch with HasLock queries; a query goes on polling.
FairTune == FairCalls /\ WF_vars(HL_Poll)

SpecLock == Init /\ [][NextLock]_vars /\ FairTune

\* HasLock queries of any timeout beside one switching thread; the polling
\* thread goes on running.
SpecPoll == Init /\ [][NextPoll]_vars /\ WF_vars(HL_Poll)

\* the buffered content is what lies between tail and head
BufConsistent ==
  /\ Len(tsBuffer.data) = RBAvailable(tsBuffer)
  /\ tsBuffer.head \in 0..(RBSize - 1)
  /\ tsBuffer.tail \in 0..(RBSize - 1)


(***************************************************************************)
(* Claims about the delivery path (SpecBuf).                               *)
(***************************************************************************)
\* a read: a GetTSPacket call that reached GetData
IsRead(e) == e.op = "GetTSPacket" /\ e.called

\* the number of bytes before the first sync byte at offset >= 1 of a run,
\* the length of the run when it holds none
BytesBeforeSync(run) ==
  IF \E i \in 2..Len(run) : run[i] = TS_SYNC_BYTE
  THEN (CHOOSE i \in 2..Len(run) :
          /\ run[i] = TS_SYNC_BYTE
          /\ \A j \in 2..(i - 1) : run[j] # TS_SYNC_BYTE) - 1
  ELSE Len(run)

\* C1 (packet alignment): a read that returns a pointer returns a run of at
\* least 188 bytes that lies in one piece at the tail of the buffer and starts
\* with the sync byte, and reports no skip; a read whose run of at least 188
\* bytes starts with another byte reports one sync skip and returns NULL; a
\* read that returns NULL hands out nothing of the buffer.
C1_PacketAlignment ==
  IsRead(ev) =>
    /\ ev.p => /\ Len(ev.run) >= TS_SIZE
               /\ ev.run[1] = TS_SYNC_BYTE
               /\ ev.skip = <<>>
               /\ ev.run = SubSeq(tsBuffer.data, 1, Len(ev.run))
               /\ tsBuffer.tail + Len(ev.run) <= RBSize
    /\ (Len(ev.run) >= TS_SIZE /\ ev.run[1] # TS_SYNC_BYTE) =>
               /\ ~ev.p
               /\ Len(ev.skip) = 1
    /\ ~ev.p => ev.dataP # "buffer"
    /\ (ev.run # <<>>) => Len(ev.run) >= TS_SIZE

\* a read returned a packet from a run that Get had moved in front of the margin
C1_Witness == IsRead(ev) /\ ev.p /\ tsBuffer.tail < RBMargin

\* the 187 bytes the 189-byte example leaves after its two stray bytes
DesyncRest == SubSeq(Desync, 3, Len(Desync))

\* C2 as stated (desync example): the read after the one that skipped the two
\* stray bytes of the 189-byte example, with no write in between, returns the
\* packet that starts at the sync byte.
C2_Original ==
  [][(/\ dvrIsOpen /\ IsRead(ev) /\ ev.skip = <<2>> /\ tsBuffer.data = DesyncRest
      /\ IsRead(ev'))
     => ev'.p]_bufVars

\* C2 as amended: the first read of the 189-byte example reports a skip of 2
\* bytes, returns NULL and leaves the 187 bytes from the sync byte on; a second
\* read with no write in between returns NULL and leaves them too; once a
\* write has brought them to at least 188 bytes, the next read returns the
\* packet that starts at that sync byte.
C2_DesyncExample ==
  /\ [][(/\ dvrIsOpen /\ bytesDelivered = 0 /\ tsBuffer.data = Desync
         /\ IsRead(ev'))
        => /\ ev'.skip = <<2>>
           /\ ~ev'.p
           /\ tsBuffer'.data = DesyncRest]_bufVars
  /\ [][(/\ dvrIsOpen /\ tsBuffer.data = DesyncRest /\ IsRead(ev'))
        => /\ ~ev'.p
           /\ ev'.skip = <<>>
           /\ tsBuffer'.data = DesyncRest]_bufVars
  /\ [][(/\ dvrIsOpen /\ bytesDelivered = 0 /\ Len(tsBuffer.data) >= TS_SIZE
         /\ SubSeq(tsBuffer.data, 1, Len(DesyncRest)) = DesyncRest
         /\ IsRead(ev'))
        => /\ ev'.p
           /\ SubSeq(ev'.run, 1, TS_SIZE) = SubSeq(tsBuffer.data, 1, TS_SIZE)]_bufVars

\* the second read of the example has returned NULL, the 187 bytes still buffered
C2_Witness ==
  /\ dvrIsOpen /\ IsRead(ev) /\ ev.run = <<>> /\ ~ev.p
  /\ tsBuffer.data = DesyncRest

\* C3 (resynchronization): a read whose run of at least 188 bytes does not
\* start with the sync byte deletes, after the packet delivered before, exactly
\* the bytes before the first sync byte at offset >= 1 of the run (the whole
\* run when it holds none), reports that count, returns NULL and leaves the
\* bytes from that sync byte on as they were.
C3_Resync ==
  [][(IsRead(ev') /\ Len(ev'.run) >= TS_SIZE /\ ev'.run[1] # TS_SYNC_BYTE)
     => LET n == BytesBeforeSync(ev'.run)
        IN  /\ ev'.skip = <<n>>
            /\ ~ev'.p
            /\ ev'.run = SubSeq(tsBuffer.data, ev'.released + 1,
                                ev'.released + Len(ev'.run))
            /\ tsBuffer'.data = SubSeq(tsBuffer.data, ev'.released + n + 1,
                                       Len(tsBuffer.data))]_bufVars

\* a read released a packet and then skipped more than two bytes up to a sync
\* byte inside the run
C3_Witness ==
  /\ IsRead(ev) /\ ev.skip # <<>> /\ ev.released = TS_SIZE
  /\ ev.skip[1] > 2 /\ ev.skip[1] < Len(ev.run)
  /\ tsBuffer.data # <<>> /\ tsBuffer.data[1] = TS_SYNC_BYTE

\* C4 (no overlap): the packet a read hands to the consumer holds no byte
\* that an earlier read handed out.
C4_NoOverlap ==
  (ev.op = "GetTSPacket" /\ ev.dataP = "buffer") => ~ev.overlap

\* a read released the packet handed out before and handed out the next one
C4_Witness ==
  /\ ev.op = "GetTSPacket" /\ ev.dataP = "buffer" /\ ev.released = TS_SIZE
  /\ given = TS_SIZE

\* C5 (overflow accounting): a WriteData with the DVR open and more bytes than
\* the buffer has room for stores fewer bytes than requested; the buffer grows
\* by what was stored; the overflow reported is requested minus stored, and
\* none is reported when all bytes were stored.
C5_Overflow ==
  /\ [](ev.op = "WriteData" /\ ev.open =>
          /\ ev.acc <= ev.req
          /\ (ev.acc < ev.req => ev.ovf = <<ev.req - ev.acc>>)
          /\ (ev.acc = ev.req => ev.ovf = <<>>))
  /\ [][(ev'.op = "WriteData" /\ dvrIsOpen /\ writes' # writes) =>
          /\ Len(tsBuffer'.data) = Len(tsBuffer.data) + ev'.acc
          /\ (ev'.req > RBPutFree(tsBuffer) => ev'.acc < ev'.req)]_bufVars

\* a write of which only a part was stored
C5_Witness ==
  ev.op = "WriteData" /\ ev.open /\ 0 < ev.acc /\ ev.acc < ev.req

\* C6 (filter fan-out): every WriteData gives its buffer, whole and once, to
\* the section filter handler, the DVR open or closed; with the DVR closed it
\* leaves the ring buffer as it was.
C6_FilterFanOut ==
  /\ [](ev.op = "WriteData" => ev.fwd = <<ev.bytes>> /\ ev.req = Len(ev.bytes))
  /\ [][(ev'.op = "WriteData" /\ writes' # writes /\ ~dvrIsOpen)
        => tsBuffer' = tsBuffer /\ bytesDelivered' = bytesDelivered]_bufVars

\* a write with the DVR closed while bytes are still buffered
C6_Witness ==
  /\ ev.op = "WriteData" /\ ~ev.open /\ ev.fwd = <<ev.bytes>>
  /\ tsBuffer.data # <<>>


(***************************************************************************)
(* Claims about the PIDs and section filters (SpecPid).                    *)
(***************************************************************************)
\* the calls of the last operation that disable pid at the session
Disables(e, pid) == {i \in 1..Len(e.calls) : e.calls[i].pid = pid /\ ~e.calls[i].on}

\* C7 (PID range guard): SetPid with a PID below 0 or above 8191, to enable or
\* to disable, returns true and makes no call to the tuner.
C7_PidRangeGuard ==
  (pev.op = "SetPid" /\ ~pev.null /\ (pev.pid < 0 \/ pev.pid > 8191)) =>
     pev.ret /\ pev.calls = <<>>

\* SetPid was asked to enable PID 8192, the first PID out of range
C7_Witness ==
  pev.op = "SetPid" /\ ~pev.null /\ pev.pid = 8192 /\ pev.on /\ pev.calls = <<>>

\* C8 (filter-aware disable): SetPid asked to disable a PID of 0..8191 calls
\* the tuner, once and to disable that PID, exactly when the handle has no
\* user left and no open section filter is for the PID; it returns true and
\* makes no call otherwise.
C8_FilterAwareDisable ==
  (pev.op = "SetPid" /\ ~pev.null /\ ~pev.on /\ pev.pid \in 0..8191) =>
     /\ (pev.used = 0 /\ \A h \in DOMAIN filters : filters[h] # pev.pid)
          => pev.calls = <<[pid |-> pev.pid, type |-> pev.type, on |-> FALSE]>>
     /\ (pev.used # 0 \/ \E h \in DOMAIN filters : filters[h] = pev.pid)
          => pev.calls = <<>> /\ pev.ret

\* a disable of an unused PID was swallowed because a filter is open for it
\* while the session has the PID enabled
C8_Witness ==
  /\ pev.op = "SetPid" /\ ~pev.null /\ ~pev.on /\ pev.used = 0
  /\ SFExists(filters, pev.pid) /\ pev.pid \in tunerPids /\ pev.calls = <<>>

\* C9 as stated (CloseFilter obeys the still-needed rule): CloseFilter never
\* disables at the session a PID that another open section filter still needs.
C9_CloseFilterKeepsNeeded ==
  (pev.op = "CloseFilter" /\ pev.pid >= 0 /\ Disables(pev, pev.pid) # {}) =>
     ~SFExists(filters, pev.pid)


(***************************************************************************)
(* Claims about the channel switch (SpecTune).                             *)
(***************************************************************************)
\* the threads that are inside discover->AssignServer
Assigning == {c \in Callers : pc[c] = "assign"}

\* C10 (tuning serialization): at most one thread, and so at most one device,
\* is inside the server assignment call of the discovery at any time, and it
\* holds SetChannelMtx.
C10_AssignSerialized ==
  /\ Cardinality(Assigning) <= 1
  /\ \A c \in Assigning : mtx = c

\* one device is inside the assignment call while another one, its tune
\* command accepted, waits for the tuned signal
C10_Witness ==
  \E c, e \in Callers :
    DeviceOf(c) # DeviceOf(e) /\ pc[c] = "assign" /\ pc[e] = "waiting"

\* the call of thread c holds SetChannelMtx: from the lock to the start of
\* the wait, and from the end of the wait to the return
HoldsMutex(c) == pc[c] \in {"locked", "assign", "tune", "prewait", "returned"}

\* the tune command of the call of thread c was accepted and the call has
\* not returned
AwaitsTuned(c) == pc[c] \in {"prewait", "waiting", "woken"}

C13_TunedWakesWaiters ==
  /\ [][\A d \in Devices :
          (sess'[d] # sess[d] /\ sess'[d] \in {"tuned", "gone"}) =>
             \A c \in Waiters(d) : pc'[c] = "woken" /\ woke'[c] = "signal"]_vars
  /\ [](\A c \in Callers :
         (pc[c] = "woken" /\ woke[c] = "signal" /\ mtx = 0) => ENABLED SC_Wake(c))
  /\ [](\A c \in Callers :
         (pc[c] = "returned" /\ woke[c] = "signal") => ret[c] = TRUE)
  /\ \A c \in Callers :
       (pc[c] = "woken" /\ woke[c] = "signal") ~>
          (pc[c] = "returned" /\ woke[c] = "signal" /\ ret[c] = TRUE)

\* two threads were blocked in the tuning wait of one device and the signal
\* has woken both
C13_Witness ==
  \E c, e \in Callers :
    /\ c # e /\ DeviceOf(c) = DeviceOf(e)
    /\ pc[c] = "woken" /\ woke[c] = "signal"
    /\ pc[e] = "woken" /\ woke[e] = "signal"

\* C14 as stated (detune): a call with a null channel commands the session to
\* release its source, returns TRUE, and leaves the device with an empty
\* serverString and with currentChannel cleared.
C14_DetuneClears ==
  \A c \in Callers :
    (pc[c] = "returned" /\ arg[c] = "null") =>
       /\ made[c] = <<"SetSource(null)">>
       /\ ret[c] = TRUE
       /\ serverString[DeviceOf(c)] = ""
       /\ currentChannel[DeviceOf(c)] = "none"

\* C15 (failures have no side effects): a call returns FALSE exactly when the
\* parameters do not translate, having called neither the discovery nor the
\* tuner, or when no server was assigned, having called the discovery only;
\* currentChannel and serverString of the device are then what they were when
\* the call began.
C15_FailureNoSideEffects ==
  \A c \in Callers :
    (pc[c] = "returned" /\ ret[c] = FALSE) =>
       /\ arg[c] # "null"
       /\ made[c] = IF Translatable(arg[c]) THEN <<"AssignServer">> ELSE <<>>
       /\ old[c] = <<currentChannel[DeviceOf(c)], serverString[DeviceOf(c)]>>

\* a call on a tuned device has failed for want of a server
C15_Witness ==
  \E c \in Callers :
    /\ pc[c] = "returned" /\ ret[c] = FALSE /\ made[c] = <<"AssignServer">>
    /\ currentChannel[DeviceOf(c)] = "chA" /\ serverString[DeviceOf(c)] = "server1"


(***************************************************************************)
(* Claims about the queries (SpecQuery).                                   *)
(***************************************************************************)
\* C16 (IsTunedToTransponder): the result is TRUE exactly when the session
\* reports itself tuned and the source, the transponder and the parameter
\* string of the channel equal those of currentChannel.
C16_TunedToTransponder ==
  qev.op = "IsTunedToTransponder" =>
    (qev.out <=> /\ qev.in.isTuned
                 /\ qev.in.cur.source = qev.in.ch.source
                 /\ qev.in.cur.transponder = qev.in.ch.transponder
                 /\ qev.in.cur.parameters = qev.in.ch.parameters)

\* the session is tuned to the source and transponder asked for, with other
\* parameters, and the query has answered FALSE
C16_Witness ==
  /\ qev.op = "IsTunedToTransponder" /\ qev.in.isTuned /\ qev.out = FALSE
  /\ qev.in.cur.source = qev.in.ch.source
  /\ qev.in.cur.transponder = qev.in.ch.transponder
  /\ qev.in.cur.parameters # qev.in.ch.parameters

\* a ProvidesChannel query for a reachable channel, with a priority above
\* IDLEPRIORITY, on a device that receives and is tuned to another transponder
OtherTransponder(e) ==
  /\ e.op = "ProvidesChannel"
  /\ e.in.channel /\ e.in.provides /\ e.in.priority > IDLEPRIORITY
  /\ e.in.receiving /\ ~e.in.tuned

\* a ProvidesChannel query for no channel or for one the device cannot reach
Unreachable(e) ==
  e.op = "ProvidesChannel" /\ (~e.in.channel \/ ~e.in.provides)

\* C17 as stated (ProvidesChannel on another transponder): the query returns
\* FALSE and sets needs_detach, whatever the two priorities; for an unreachable
\* channel it returns FALSE and leaves needs_detach FALSE.
C17_Original ==
  /\ OtherTransponder(qev) =>
       qev.out = [result |-> FALSE, needsDetachReceivers |-> TRUE]
  /\ Unreachable(qev) =>
       qev.out = [result |-> FALSE, needsDetachReceivers |-> FALSE]

\* C17 as amended: the query sets needs_detach and returns TRUE exactly when
\* the requested priority is greater than the priority of the device; for an
\* unreachable channel it returns FALSE and leaves needs_detach FALSE.
C17_DetachOtherTransponder ==
  /\ OtherTransponder(qev) =>
       qev.out = [result |-> qev.in.priority > qev.in.devPriority,
                  needsDetachReceivers |-> TRUE]
  /\ Unreachable(qev) =>
       qev.out = [result |-> FALSE, needsDetachReceivers |-> FALSE]

\* the query was made with the priority the device has, and has returned
\* FALSE with needs_detach set
C17_Witness ==
  /\ OtherTransponder(qev) /\ qev.in.priority = qev.in.devPriority
  /\ qev.out = [result |-> FALSE, needsDetachReceivers |-> TRUE]


(***************************************************************************)
(* Claims about the delivery cursor, the statistics and the DVR (SpecBuf). *)
(***************************************************************************)
\* the fields of the device the delivery operations work on
Delivery == <<dvrIsOpen, bytesDelivered, checkTsBufferM, tsBuffer>>

\* C18 as stated (delivery cursor): between the calls of the delivery
\* operations bytesDelivered is 0 or 188, with or without a CAM slot.
C18_Original == bytesDelivered \in {0, TS_SIZE}

\* C18 as amended: a read through GetData alone, or with a CAM slot that
\* decrypts in place, leaves bytesDelivered at 188 when it returns a packet
\* and at 0 when it returns none (untouched when the DVR is closed and no CAM
\* slot is read through); with a CAM slot that keeps the data in a buffer of
\* its own, bytesDelivered is the number of bytes the slot took, from 0 to the
\* length of the run it was offered; OpenDvr sets it to 0 and nothing else
\* changes it.  Every read with the DVR open deletes exactly bytesDelivered
\* bytes from the front of the buffer before it looks for a packet.
C18_DeliveryCursor ==
  /\ [][bytesDelivered' # bytesDelivered =>
          \/ ev'.op = "OpenDvr" /\ bytesDelivered' = 0
          \/ IsRead(ev') /\ ev'.bufStat = <<>> /\ ev'.open
               /\ bytesDelivered' = IF ev'.p THEN TS_SIZE ELSE 0
          \/ IsRead(ev') /\ ev'.bufStat # <<>> /\ ev'.dataP = "buffer"
               /\ bytesDelivered' = TS_SIZE
          \/ IsRead(ev') /\ ev'.bufStat # <<>> /\ ev'.dataP # "buffer"
               /\ bytesDelivered' \in 0..Len(ev'.run)]_bufVars
  /\ [][(IsRead(ev') /\ ev'.bufStat = <<>>) =>
          bytesDelivered' = IF ev'.p THEN TS_SIZE
                            ELSE IF ev'.open THEN 0 ELSE bytesDelivered]_bufVars
  /\ [][(IsRead(ev') /\ dvrIsOpen) =>
          /\ ev'.released = bytesDelivered
          /\ Len(tsBuffer'.data) <= Len(tsBuffer.data) - bytesDelivered]_bufVars

\* a read has released more than one packet, which a CAM slot had taken
C18_Witness == IsRead(ev) /\ ev.released > TS_SIZE

\* C19 as stated (statistics accounting): a GetTSPacket call that returns a
\* packet of the buffer counts its PID once, a call that returns no packet
\* counts no PID, and a packet returned by one read has had its buffer
\* statistics updated by the time the next read has released it.
C19_StatsAccounting ==
  /\ [](ev.op = "GetTSPacket" =>
         /\ ev.dataP = "buffer" =>
               ev.pidStat = <<<<ts_pid(ev.run), payload(ev.run)>>>>
         /\ ev.dataP = "null" => ev.pidStat = <<>>)
  /\ [][(IsRead(ev) /\ ev.dataP = "buffer" /\ IsRead(ev') /\ ev'.released > 0) =>
          Len(ev.bufStat) + Len(ev'.bufStat) >= 1]_bufVars

\* C20 (DVR open and close): OpenDvr leaves the DVR open, the buffer empty and
\* bytesDelivered 0, and a second OpenDvr changes none of the device; CloseDvr
\* calls tuner->Close() exactly when the DVR was open, and on a closed DVR
\* changes none of the device; the tuner is open exactly when the DVR is, so
\* that every Close follows an Open with no Close in between.
C20_DvrOpenClose ==
  /\ [](ev.op = "OpenDvr" =>
         /\ dvrIsOpen /\ tsBuffer.data = <<>> /\ bytesDelivered = 0
         /\ ev.tuner = <<"Open">>)
  /\ [][(ev'.op = "OpenDvr" /\ ev.op = "OpenDvr") => Delivery' = Delivery]_bufVars
  /\ [][ev'.op = "CloseDvr" =>
          /\ ev'.tuner = IF dvrIsOpen THEN <<"Close">> ELSE <<>>
          /\ ~dvrIsOpen'
          /\ ~dvrIsOpen => Delivery' = Delivery]_bufVars
  /\ [](tunerIsOpen = dvrIsOpen)
  /\ [][("Close" \in {ev'.tuner[i] : i \in DOMAIN ev'.tuner}) =>
          tunerIsOpen /\ ~tunerIsOpen']_bufVars

\* CloseDvr on a DVR that was already closed, with data left in the buffer
C20_Witness ==
  ev.op = "CloseDvr" /\ ~ev.open /\ ev.tuner = <<>> /\ tsBuffer.data # <<>>



\* the polling rounds a timeout allows: ceil(timeout / interval), none for a
\* timeout that is not positive
SleepsAllowed(timeout) ==
  IF timeout <= 0 THEN 0 ELSE (timeout + interval - 1) \div interval

HasLockEnded == lockq.res \in {"true", "false"}

\* C21 (HasLock polls in bounded increments): a HasLock query ends; each of
\* its steps asks the tuner for the lock exactly once, and it sleeps one
\* interval after a query only if that query reported no lock and timeout was
\* still positive; it returns TRUE at the first query that reports a lock and
\* otherwise the result of a last query, made after ceil(timeout / interval)
\* sleeps and never more; with timeout <= 0 it makes exactly one query and
\* does not sleep.
C21_HasLockPolling ==
  /\ (lockq.res = "polling") ~> HasLockEnded
  /\ [][(lockq.res = "polling" /\ lockq' # lockq) =>
          LET has == TunerHasLock(sess[lockq.dev])
          IN  /\ lockq'.queries = lockq.queries + 1
              /\ has => (lockq'.res = "true" /\ lockq'.sleeps = lockq.sleeps)
              /\ ~has =>
                   IF lockq.sleeps < SleepsAllowed(lockq.asked)
                   THEN lockq'.res = "polling" /\ lockq'.sleeps = lockq.sleeps + 1
                   ELSE lockq'.res = "false" /\ lockq'.sleeps = lockq.sleeps]_vars
  /\ [](lockq.res # "none" =>
          /\ lockq.sleeps <= SleepsAllowed(lockq.asked)
          /\ lockq.res = "polling" => lockq.queries = lockq.sleeps
          /\ HasLockEnded => lockq.queries = lockq.sleeps + 1
          /\ lockq.res = "false" => lockq.sleeps = SleepsAllowed(lockq.asked)
          /\ (HasLockEnded /\ lockq.asked <= 0) =>
               (lockq.queries = 1 /\ lockq.sleeps = 0))

\* a query with a timeout of an interval and a half has ended with FALSE after
\* two sleeps and three queries
C21_Witness ==
  /\ lockq.res = "false"
  /\ lockq.asked = interval + interval \div 2
  /\ lockq.sleeps = 2 /\ lockq.queries = 3

\* C22 (no lost tuned signal): a call whose tune command the session has
\* accepted does not sit out the tuning timeout when the session has signalled
\* tuned since the acceptance; so the wait of a call never ends by the timeout
\* while the session of its device is tuned, whether the signal came during
\* the wait or between the acceptance and the start of the wait.
C22_NoLostTunedSignal ==
  [][\A c \in Callers :
       (pc[c] = "waiting" /\ pc'[c] = "woken" /\ woke'[c] = "timeout") =>
          sess[DeviceOf(c)] # "tuned"]_vars

\* the call has returned because the tuner rejected its tune command
Rejected(c) ==
  /\ pc[c] = "returned"
  /\ arg[c] # "null"
  /\ made[c] = <<"AssignServer", "SetSource">>
  /\ woke[c] = "none"

\* C23 (a rejected tune command is a failed switch): a call with a channel
\* whose tune command the tuner rejected returns FALSE, and currentChannel and
\* serverString of its device are what they were when the call began; so a
\* call with a channel returns TRUE only after the tuner accepted its command.
C23_RejectedIsFailure ==
  \A c \in Callers :
    Rejected(c) =>
       /\ ret[c] = FALSE
       /\ old[c] = <<currentChannel[DeviceOf(c)], serverString[DeviceOf(c)]>>

============================================================================
